---- MODULE Spec2Model ----
(***************************************************************************)
(* Session lifecycle of the hospital front end: the AuthProvider reducer   *)
(* and its operations (frontend/src/contexts/AuthContext.js), the axios    *)
(* request/response interceptors (services/api.js, held in                 *)
(* frontend/src/pages/RegisterPage.js lines 289-478), the Dashboard's      *)
(* doctors fetch and the RegisterPage form.                                *)
(*                                                                         *)
(* JavaScript values are modelled as follows: null and undefined are the   *)
(* strings NULL and UNDEFINED, text typed into a form is a sequence of     *)
(* characters, a user object is a record [email, role], and an axios error *)
(* is a record [response, status, detail].                                 *)
(***************************************************************************)
EXTENDS Integers, Sequences, FiniteSets, Bags, TLC

VARIABLES
    state,          \* useReducer(authReducer, initialState)
    store,          \* localStorage['hospital_token']
    authHeader,     \* authAPI.defaults.headers.common['Authorization']
    pathname,       \* window.location.pathname
    navPending,     \* window.location.href was assigned, document not yet replaced
    hrefAssigns,    \* assignments of window.location.href in this document
    restoreStarted, \* the provider's mount effect has run in this document
    inflight,       \* requests awaiting their response, with their continuation
    dash,           \* Dashboard component state
    form,           \* RegisterPage component state
    last            \* the step taken last, its request, error and return value

vars == <<state, store, authHeader, pathname, navPending, hrefAssigns,
          restoreStarted, inflight, dash, form, last>>

-----------------------------------------------------------------------------
(* Bounds *)

MaxInFlight == 2   \* requests awaiting a response at one time
MaxHref == 2       \* hrefAssigns counts up to this many assignments
EffectCycle == 2   \* runs of a page's clear-error effect are counted modulo this

-----------------------------------------------------------------------------
(* JavaScript values *)

NULL == "null"
UNDEFINED == "undefined"
EmptyText == << >>
NullUser == [email |-> EmptyText, role |-> NULL]

\* truthiness of a string-valued JavaScript value
Truthy(v) == v \notin {NULL, UNDEFINED, ""}

\* a || b
OrElse(a, b) == IF Truthy(a) THEN a ELSE b

Unauthorized == 401

-----------------------------------------------------------------------------
(* The Credential Verifier (backend): accounts, tokens and responses *)

EmailA == <<"a", "@", "h", ".", "c">>
EmailB == <<"b", "@", "h", ".", "c">>
PasswordA == <<"s", "e", "c", "r", "e", "t">>
PasswordB == <<"h", "u", "n", "t", "e", "r", "2">>

Accounts == { [email |-> EmailA, role |-> "doctor"],
              [email |-> EmailB, role |-> "admin"] }

AccountOf(email) == CHOOSE a \in Accounts : a.email = email
TokenOf(email) == IF email = EmailA THEN "tokA" ELSE "tokB"
Tokens == { TokenOf(a.email) : a \in Accounts }
UserOfToken(t) == CHOOSE a \in Accounts : TokenOf(a.email) = t

\* POST /auth/login -> {access_token, user}
LoginResponse(email) ==
    [access_token |-> TokenOf(email), user |-> AccountOf(email)]

\* GET /auth/me (bearer-authenticated) -> user
MeResponse(bearer) == UserOfToken(bearer)

\* A rejected axios promise: no response reached (transport failure), or a
\* response with an error status and an optional detail.
TransportError == [response |-> FALSE, status |-> 0, detail |-> UNDEFINED]
NoError == [response |-> FALSE, status |-> 0, detail |-> "none"]
Errors ==
    { TransportError,
      [response |-> TRUE, status |-> Unauthorized, detail |-> UNDEFINED],
      [response |-> TRUE, status |-> Unauthorized,
       detail |-> "Invalid credentials"],
      [response |-> TRUE, status |-> 500, detail |-> ""],
      [response |-> TRUE, status |-> 500, detail |-> "Email already registered"] }

\* error.response?.data?.detail
DetailOf(err) == IF err.response THEN err.detail ELSE UNDEFINED
\* error.response?.status === 401
IsRejected(err) == err.response /\ err.status = Unauthorized

-----------------------------------------------------------------------------
(* AuthContext.js: reducer *)

initialState ==
    [user |-> NullUser, token |-> NULL, isAuthenticated |-> FALSE,
     loading |-> TRUE, error |-> NULL]

\* Variant: LOGOUT leaves the token in the state.
authReducer_LogoutKeepsToken(s, type, payload) ==
    CASE type = "LOGIN_START" ->
            [s EXCEPT !.loading = TRUE, !.error = NULL]
      [] type = "LOGIN_SUCCESS" ->
            [s EXCEPT !.user = payload.user, !.token = payload.token,
                      !.isAuthenticated = TRUE, !.loading = FALSE,
                      !.error = NULL]
      [] type = "LOGIN_FAILURE" ->
            [s EXCEPT !.user = NullUser, !.token = NULL,
                      !.isAuthenticated = FALSE, !.loading = FALSE,
                      !.error = payload]
      [] type = "LOGOUT" ->
            [s EXCEPT !.user = NullUser,
                      !.isAuthenticated = FALSE, !.loading = FALSE,
                      !.error = NULL]
      [] type = "SET_LOADING" -> [s EXCEPT !.loading = payload]
      [] type = "CLEAR_ERROR" -> [s EXCEPT !.error = NULL]
      [] type = "UPDATE_USER" -> [s EXCEPT !.user = payload]
      [] OTHER -> s

\* Variant: LOGIN_SUCCESS leaves the error in the state.
authReducer_SuccessKeepsError(s, type, payload) ==
    CASE type = "LOGIN_START" ->
            [s EXCEPT !.loading = TRUE, !.error = NULL]
      [] type = "LOGIN_SUCCESS" ->
            [s EXCEPT !.user = payload.user, !.token = payload.token,
                      !.isAuthenticated = TRUE, !.loading = FALSE]
      [] type = "LOGIN_FAILURE" ->
            [s EXCEPT !.user = NullUser, !.token = NULL,
                      !.isAuthenticated = FALSE, !.loading = FALSE,
                      !.error = payload]
      [] type = "LOGOUT" ->
            [s EXCEPT !.user = NullUser, !.token = NULL,
                      !.isAuthenticated = FALSE, !.loading = FALSE,
                      !.error = NULL]
      [] type = "SET_LOADING" -> [s EXCEPT !.loading = payload]
      [] type = "CLEAR_ERROR" -> [s EXCEPT !.error = NULL]
      [] type = "UPDATE_USER" -> [s EXCEPT !.user = payload]
      [] OTHER -> s

authReducer(s, type, payload) ==
    CASE type = "LOGIN_START" ->
            [s EXCEPT !.loading = TRUE, !.error = NULL]
      [] type = "LOGIN_SUCCESS" ->
            [s EXCEPT !.user = payload.user, !.token = payload.token,
                      !.isAuthenticated = TRUE, !.loading = FALSE,
                      !.error = NULL]
      [] type = "LOGIN_FAILURE" ->
            [s EXCEPT !.user = NullUser, !.token = NULL,
                      !.isAuthenticated = FALSE, !.loading = FALSE,
                      !.error = payload]
      [] type = "LOGOUT" ->
            [s EXCEPT !.user = NullUser, !.token = NULL,
                      !.isAuthenticated = FALSE, !.loading = FALSE,
                      !.error = NULL]
      [] type = "SET_LOADING" -> [s EXCEPT !.loading = payload]
      [] type = "CLEAR_ERROR" -> [s EXCEPT !.error = NULL]
      [] type = "UPDATE_USER" -> [s EXCEPT !.user = payload]
      [] OTHER -> s

-----------------------------------------------------------------------------
(* api.js: axios instances and interceptors *)

NoBody == [nome |-> EmptyText, email |-> EmptyText, password |-> EmptyText,
           confirm_password |-> EmptyText, role |-> "", crm |-> EmptyText,
           especialidade |-> EmptyText]

\* authAPI carries the default Authorization header that login and restore
\* set; hospitalAPI has none.
DefaultAuthorization(api) == IF api = "authAPI" THEN authHeader ELSE NULL

\* Request interceptor: the Authorization header of the outgoing request,
\* given the header merged from the instance defaults and the stored token.
addAuthInterceptor(authorization, token) ==
    IF Truthy(token) THEN token ELSE authorization

\* Variant: the redirect is assigned whatever the current location.
addResponseInterceptor_AlwaysRedirects(err, token, path) ==
    IF IsRejected(err)
    THEN [store |-> NULL, href |-> "/login"]
    ELSE [store |-> token, href |-> NULL]

\* Variant: every error response invalidates, whatever its status.
addResponseInterceptor_AnyStatus(err, token, path) ==
    IF err.response
    THEN [store |-> NULL,
          href |-> IF path # "/login" THEN "/login" ELSE NULL]
    ELSE [store |-> token, href |-> NULL]

\* Response interceptor, error branch: what it leaves in localStorage and
\* the value it assigns to window.location.href (NULL: no assignment).
addResponseInterceptor(err, token, path) ==
    IF IsRejected(err)
    THEN [store |-> NULL,
          href |-> IF path # "/login" THEN "/login" ELSE NULL]
    ELSE [store |-> token, href |-> NULL]

\* A request as dispatched: the instance, the bearer credential it carries,
\* its body, and what its continuation holds (the token restore read, who
\* called login).
Request(op, api, body, tok, caller, defaults, token) ==
    [op |-> op, api |-> api,
     bearer |-> addAuthInterceptor(defaults, token),
     body |-> body, tok |-> tok, caller |-> caller]

NoRequest == [op |-> "none", api |-> "none", bearer |-> NULL, body |-> NoBody,
              tok |-> NULL, caller |-> "none"]

\* The requests in flight are a bag: axios keeps no order among them.
Pending == BagToSet(inflight)
Sent(bag, req) == bag (+) SetToBag({req})
Answered(bag, req) == bag (-) SetToBag({req})

NoRet == [success |-> FALSE, error |-> "none"]
Step(op, req, err, ret) == [op |-> op, req |-> req, err |-> err, ret |-> ret]

Min(a, b) == IF a < b THEN a ELSE b

\* The response interceptor's effect on window.location: an assignment of
\* href starts a navigation, which replaces the document later.
Redirected(rej) ==
    /\ navPending' = (navPending \/ rej.href # NULL)
    /\ hrefAssigns' = IF rej.href # NULL
                      THEN Min(hrefAssigns + 1, MaxHref) ELSE hrefAssigns

\* handleAPIError(error): the message for an error, by its kind. The errors
\* modelled are axios errors: a response, or a request without a response.
handleAPIError(err) ==
    IF err.response THEN OrElse(DetailOf(err), "Erro no servidor")
    ELSE "Erro de conexao com o servidor"

-----------------------------------------------------------------------------
(* Component state outside the provider *)

DashUnmounted == [mounted |-> FALSE, loading |-> TRUE, error |-> NULL,
                  doctors |-> << >>]

Fields == {"nome", "email", "password", "confirm_password", "crm",
           "especialidade"}

FormInitial ==
    [formData |-> [nome |-> EmptyText, email |-> EmptyText,
                   password |-> EmptyText, confirm_password |-> EmptyText,
                   role |-> "doctor", crm |-> EmptyText,
                   especialidade |-> EmptyText],
     isSubmitting |-> FALSE,
     validationErrors |-> [f \in Fields |-> UNDEFINED],
     effectRuns |-> 0]

Paths == {"/login", "/"}

-----------------------------------------------------------------------------
(* AuthContext.js: the provider's operations *)

\* Variant: without a stored token the effect ends without a dispatch.
loadStoredAuth_NoTokenStaysLoading ==
    /\ ~restoreStarted
    /\ restoreStarted' = TRUE
    /\ LET token == store IN
       IF Truthy(token)
       THEN /\ BagCardinality(inflight) < MaxInFlight
            /\ authHeader' = token
            /\ LET req ==
                   Request("restore", "authAPI", NoBody,
                           token, "effect", token, store)
               IN /\ inflight' = Sent(inflight, req)
                  /\ last' = Step("loadStoredAuth", req, NoError, NoRet)
            /\ UNCHANGED state
       ELSE /\ last' = Step("loadStoredAuth", NoRequest, NoError, NoRet)
            /\ UNCHANGED <<state, authHeader, inflight>>
    /\ UNCHANGED <<store, pathname, navPending, hrefAssigns, dash, form>>

\* useEffect(() => { loadStoredAuth() }, []): up to the await, or to the end
\* when no token is stored.
loadStoredAuth ==
    /\ ~restoreStarted
    /\ restoreStarted' = TRUE
    /\ LET token == store IN
       IF Truthy(token)
       THEN /\ BagCardinality(inflight) < MaxInFlight
            /\ authHeader' = token
            /\ LET req ==
                   Request("restore", "authAPI", NoBody,
                           token, "effect", token, store)
               IN /\ inflight' = Sent(inflight, req)
                  /\ last' = Step("loadStoredAuth", req, NoError, NoRet)
            /\ UNCHANGED state
       ELSE /\ state' = authReducer(state, "SET_LOADING", FALSE)
            /\ last' = Step("loadStoredAuth", NoRequest, NoError, NoRet)
            /\ UNCHANGED <<authHeader, inflight>>
    /\ UNCHANGED <<store, pathname, navPending, hrefAssigns, dash, form>>

\* Variant: the token put in the state is read from the store again when the
\* response arrives, not the one read before the call.
loadStoredAuthResolved_RereadsStore(r) ==
    /\ r.op = "restore"
    /\ Truthy(r.bearer)
    /\ state' = authReducer(state, "LOGIN_SUCCESS",
                    [user |-> MeResponse(r.bearer), token |-> store])
    /\ inflight' = Answered(inflight, r)
    /\ last' = Step("loadStoredAuthResolved", r, NoError, NoRet)
    /\ UNCHANGED <<store, authHeader, pathname, navPending, hrefAssigns,
                   restoreStarted, dash, form>>

\* loadStoredAuth after the await: /auth/me answered with the user.
loadStoredAuthResolved(r) ==
    /\ r.op = "restore"
    /\ Truthy(r.bearer)
    /\ state' = authReducer(state, "LOGIN_SUCCESS",
                    [user |-> MeResponse(r.bearer),
                     token |-> r.tok])
    /\ inflight' = Answered(inflight, r)
    /\ last' = Step("loadStoredAuthResolved", r, NoError, NoRet)
    /\ UNCHANGED <<store, authHeader, pathname, navPending, hrefAssigns,
                   restoreStarted, dash, form>>

\* Variant: the catch block ends without dispatching SET_LOADING.
loadStoredAuthRejected_StaysLoading(r, err) ==
    /\ r.op = "restore"
    /\ LET rej == addResponseInterceptor(err, store, pathname) IN
       /\ store' = NULL
       /\ Redirected(rej)
    /\ authHeader' = NULL
    /\ inflight' = Answered(inflight, r)
    /\ last' = Step("loadStoredAuthRejected", r, err, NoRet)
    /\ UNCHANGED <<state, pathname, restoreStarted, dash, form>>

\* Variant: the catch block leaves the default Authorization header in place.
loadStoredAuthRejected_KeepsHeader(r, err) ==
    /\ r.op = "restore"
    /\ LET rej == addResponseInterceptor(err, store, pathname) IN
       /\ store' = NULL
       /\ Redirected(rej)
    /\ state' = authReducer(state, "SET_LOADING", FALSE)
    /\ inflight' = Answered(inflight, r)
    /\ last' = Step("loadStoredAuthRejected", r, err, NoRet)
    /\ UNCHANGED <<authHeader, pathname, restoreStarted, dash, form>>

\* loadStoredAuth after the await: /auth/me failed; the catch block.
loadStoredAuthRejected(r, err) ==
    /\ r.op = "restore"
    /\ LET rej == addResponseInterceptor(err, store, pathname) IN
       /\ store' = NULL
       /\ Redirected(rej)
    /\ authHeader' = NULL
    /\ state' = authReducer(state, "SET_LOADING", FALSE)
    /\ inflight' = Answered(inflight, r)
    /\ last' = Step("loadStoredAuthRejected", r, err, NoRet)
    /\ UNCHANGED <<pathname, restoreStarted, dash, form>>

LoginBody(email, password) ==
    [NoBody EXCEPT !.email = email, !.password = password]

LoginFallback == "Erro ao fazer login"
RegisterFallback == "Erro ao cadastrar usuario"
AutoLoginFailed == "Cadastro realizado, mas falha no login automatico"

\* Variant: login sends its request without dispatching LOGIN_START.
login_NoStart(email, password) ==
    /\ BagCardinality(inflight) < MaxInFlight
    /\ LET req ==
           Request("login", "authAPI", LoginBody(email,
                   password), NULL, "page", DefaultAuthorization("authAPI"), store)
       IN /\ inflight' = Sent(inflight, req)
          /\ last' = Step("login", req, NoError, NoRet)
    /\ UNCHANGED <<state, store, authHeader, pathname, navPending, hrefAssigns,
                   restoreStarted, dash, form>>

\* login(email, password) up to the await, called from a page.
login(email, password) ==
    /\ BagCardinality(inflight) < MaxInFlight
    /\ state' = authReducer(state, "LOGIN_START", NULL)
    /\ LET req ==
           Request("login", "authAPI", LoginBody(email,
                   password), NULL, "page", DefaultAuthorization("authAPI"), store)
       IN /\ inflight' = Sent(inflight, req)
          /\ last' = Step("login", req, NoError, NoRet)
    /\ UNCHANGED <<store, authHeader, pathname, navPending, hrefAssigns,
                   restoreStarted, dash, form>>

\* The page's submit handler after `await login(...)` or
\* `await register(...)`: finally { setIsSubmitting(false) }.
Submitted(f, caller) ==
    IF caller \in {"RegisterPage", "LoginPage"}
    THEN [f EXCEPT !.isSubmitting = FALSE] ELSE f

\* What register returns once the login it awaited has returned ret.
registerAfterLogin(ret) ==
    IF ret.success THEN [success |-> TRUE, error |-> UNDEFINED]
    ELSE [success |-> FALSE, error |-> AutoLoginFailed]

\* Variant: the token is not written to localStorage.
loginResolved_NoStore(r) ==
    /\ r.op = "login"
    /\ r.body.email \in {a.email : a \in Accounts}
    /\ LET data == LoginResponse(r.body.email)
           ret == [success |-> TRUE, error |-> UNDEFINED]
       IN
       /\ authHeader' = data.access_token
       /\ state' = authReducer(state, "LOGIN_SUCCESS",
                       [user |-> data.user, token |-> data.access_token])
       /\ last' = Step("loginResolved", r, NoError,
                       IF r.caller \in {"page", "LoginPage"} THEN ret
                       ELSE registerAfterLogin(ret))
    /\ inflight' = Answered(inflight, r)
    /\ form' = Submitted(form, r.caller)
    /\ UNCHANGED <<store, pathname, navPending, hrefAssigns, restoreStarted,
                   dash>>

\* login after the await: the verifier accepted the credentials.
loginResolved(r) ==
    /\ r.op = "login"
    /\ r.body.email \in {a.email : a \in Accounts}
    /\ LET data == LoginResponse(r.body.email)
           access_token == data.access_token
           user == data.user
           ret == [success |-> TRUE, error |-> UNDEFINED]
       IN
       /\ store' = access_token
       /\ authHeader' = access_token
       /\ state' = authReducer(state, "LOGIN_SUCCESS",
                       [user |-> user, token |-> access_token])
       /\ last' = Step("loginResolved", r, NoError,
                       IF r.caller \in {"page", "LoginPage"} THEN ret
                       ELSE registerAfterLogin(ret))
    /\ inflight' = Answered(inflight, r)
    /\ form' = Submitted(form, r.caller)
    /\ UNCHANGED <<pathname, navPending, hrefAssigns, restoreStarted, dash>>

\* Variant: the fallback is dispatched whatever the server said, while the
\* server's message is returned.
loginRejected_FallbackInState(r, err) ==
    /\ r.op = "login"
    /\ LET rej == addResponseInterceptor(err, store, pathname)
           errorMessage == OrElse(DetailOf(err), LoginFallback)
           ret == [success |-> FALSE, error |-> errorMessage]
       IN
       /\ store' = rej.store
       /\ Redirected(rej)
       /\ state' = authReducer(state, "LOGIN_FAILURE", LoginFallback)
       /\ last' = Step("loginRejected", r, err,
                       IF r.caller \in {"page", "LoginPage"} THEN ret
                       ELSE registerAfterLogin(ret))
    /\ inflight' = Answered(inflight, r)
    /\ form' = Submitted(form, r.caller)
    /\ UNCHANGED <<authHeader, pathname, restoreStarted, dash>>

\* login after the await: the post failed; the catch block.
loginRejected(r, err) ==
    /\ r.op = "login"
    /\ LET rej == addResponseInterceptor(err, store, pathname)
           errorMessage == OrElse(DetailOf(err), LoginFallback)
           ret == [success |-> FALSE, error |-> errorMessage]
       IN
       /\ store' = rej.store
       /\ Redirected(rej)
       /\ state' = authReducer(state, "LOGIN_FAILURE", errorMessage)
       /\ last' = Step("loginRejected", r, err,
                       IF r.caller \in {"page", "LoginPage"} THEN ret
                       ELSE registerAfterLogin(ret))
    /\ inflight' = Answered(inflight, r)
    /\ form' = Submitted(form, r.caller)
    /\ UNCHANGED <<authHeader, pathname, restoreStarted, dash>>

\* register(userData) up to the first await; caller is "app" or the
\* RegisterPage submit handler.
register(userData, caller) ==
    /\ BagCardinality(inflight) < MaxInFlight
    /\ state' = authReducer(state, "LOGIN_START", NULL)
    /\ LET req ==
           Request("register", "authAPI", userData,
                   NULL, caller, DefaultAuthorization("authAPI"), store)
       IN /\ inflight' = Sent(inflight, req)
          /\ last' = Step("register", req, NoError, NoRet)
    /\ UNCHANGED <<store, authHeader, pathname, navPending, hrefAssigns,
                   restoreStarted, dash>>

\* Variant: the auto-login is sent without the password.
registerResolved_LoginWithoutPassword(r) ==
    /\ r.op = "register"
    /\ LET userData == r.body IN
       /\ state' = authReducer(state, "LOGIN_START", NULL)
       /\ inflight' = Sent(Answered(inflight, r),
              Request("login", "authAPI",
                      LoginBody(userData.email, EmptyText), NULL,
                      r.caller, DefaultAuthorization("authAPI"),
                      store))
    /\ last' = Step("registerResolved", r, NoError, NoRet)
    /\ UNCHANGED <<store, authHeader, pathname, navPending, hrefAssigns,
                   restoreStarted, dash, form>>

\* register after the first await: the account was created; the auto-login
\* runs up to its own await.
registerResolved(r) ==
    /\ r.op = "register"
    /\ LET userData == r.body IN
       /\ state' = authReducer(state, "LOGIN_START", NULL)
       /\ inflight' = Sent(Answered(inflight, r),
              Request("login", "authAPI",
                      LoginBody(userData.email, userData.password), NULL,
                      r.caller, DefaultAuthorization("authAPI"),
                      store))
    /\ last' = Step("registerResolved", r, NoError, NoRet)
    /\ UNCHANGED <<store, authHeader, pathname, navPending, hrefAssigns,
                   restoreStarted, dash, form>>

\* Variant: the catch block returns the failure without a dispatch.
registerRejected_NoDispatch(r, err) ==
    /\ r.op = "register"
    /\ LET rej == addResponseInterceptor(err, store, pathname)
           errorMessage == OrElse(DetailOf(err), RegisterFallback)
       IN
       /\ store' = rej.store
       /\ Redirected(rej)
       /\ last' = Step("registerRejected", r, err,
                       [success |-> FALSE, error |-> errorMessage])
    /\ inflight' = Answered(inflight, r)
    /\ form' = Submitted(form, r.caller)
    /\ UNCHANGED <<state, authHeader, pathname, restoreStarted, dash>>

\* register after the first await: the post failed; the catch block.
registerRejected(r, err) ==
    /\ r.op = "register"
    /\ LET rej == addResponseInterceptor(err, store, pathname)
           errorMessage == OrElse(DetailOf(err), RegisterFallback)
       IN
       /\ store' = rej.store
       /\ Redirected(rej)
       /\ state' = authReducer(state, "LOGIN_FAILURE", errorMessage)
       /\ last' = Step("registerRejected", r, err,
                       [success |-> FALSE, error |-> errorMessage])
    /\ inflight' = Answered(inflight, r)
    /\ form' = Submitted(form, r.caller)
    /\ UNCHANGED <<authHeader, pathname, restoreStarted, dash>>

\* Variant: logout leaves the token in localStorage.
logoutEffect_KeepsStore(sess) ==
    [state |-> authReducer(sess.state, "LOGOUT", NULL),
     store |-> sess.store,
     authHeader |-> NULL]

\* Variant: LOGOUT flips loading instead of clearing it.
logoutEffect_TogglesLoading(sess) ==
    [state |-> [authReducer(sess.state, "LOGOUT", NULL)
                   EXCEPT !.loading = ~sess.state.loading],
     store |-> NULL,
     authHeader |-> NULL]

\* logout() as a function of the session: the reducer state, the stored
\* token and the default Authorization header.
logoutEffect(sess) ==
    [state |-> authReducer(sess.state, "LOGOUT", NULL),
     store |-> NULL,
     authHeader |-> NULL]

Session == [state |-> state, store |-> store, authHeader |-> authHeader]

logout ==
    /\ LET after == logoutEffect(Session) IN
       /\ store' = after.store
       /\ authHeader' = after.authHeader
       /\ state' = after.state
    /\ last' = Step("logout", NoRequest, NoError, NoRet)
    /\ UNCHANGED <<pathname, navPending, hrefAssigns, restoreStarted,
                   inflight, dash, form>>

\* Variant: CLEAR_ERROR also ends loading.
clearError_ResetsLoading ==
    /\ state' = [authReducer(state, "CLEAR_ERROR", NULL)
                    EXCEPT !.loading = FALSE]
    /\ last' = Step("clearError", NoRequest, NoError, NoRet)
    /\ UNCHANGED <<store, authHeader, pathname, navPending, hrefAssigns,
                   restoreStarted, inflight, dash, form>>

clearError ==
    /\ state' = authReducer(state, "CLEAR_ERROR", NULL)
    /\ last' = Step("clearError", NoRequest, NoError, NoRet)
    /\ UNCHANGED <<store, authHeader, pathname, navPending, hrefAssigns,
                   restoreStarted, inflight, dash, form>>

\* getCurrentUser() up to the await.
getCurrentUser ==
    /\ BagCardinality(inflight) < MaxInFlight
    /\ LET req ==
           Request("getCurrentUser", "authAPI", NoBody,
                   NULL, "app", DefaultAuthorization("authAPI"), store)
       IN /\ inflight' = Sent(inflight, req)
          /\ last' = Step("getCurrentUser", req, NoError, NoRet)
    /\ UNCHANGED <<state, store, authHeader, pathname, navPending,
                   hrefAssigns, restoreStarted, dash, form>>

\* Variant: the answer is dispatched as LOGIN_SUCCESS, as restore does.
getCurrentUserResolved_AsLoginSuccess(r) ==
    /\ r.op = "getCurrentUser"
    /\ Truthy(r.bearer)
    /\ state' = authReducer(state, "LOGIN_SUCCESS",
                    [user |-> MeResponse(r.bearer), token |-> state.token])
    /\ inflight' = Answered(inflight, r)
    /\ last' = Step("getCurrentUserResolved", r, NoError,
                    [success |-> TRUE, error |-> UNDEFINED])
    /\ UNCHANGED <<store, authHeader, pathname, navPending, hrefAssigns,
                   restoreStarted, dash, form>>

\* getCurrentUser after the await: /auth/me answered with the user.
getCurrentUserResolved(r) ==
    /\ r.op = "getCurrentUser"
    /\ Truthy(r.bearer)
    /\ state' = authReducer(state, "UPDATE_USER",
                    MeResponse(r.bearer))
    /\ inflight' = Answered(inflight, r)
    /\ last' = Step("getCurrentUserResolved", r, NoError,
                    [success |-> TRUE, error |-> UNDEFINED])
    /\ UNCHANGED <<store, authHeader, pathname, navPending, hrefAssigns,
                   restoreStarted, dash, form>>

getCurrentUserRejected(r, err) ==
    /\ r.op = "getCurrentUser"
    /\ LET rej == addResponseInterceptor(err, store, pathname) IN
       /\ store' = rej.store
       /\ Redirected(rej)
    /\ inflight' = Answered(inflight, r)
    /\ last' = Step("getCurrentUserRejected", r, err,
                    [success |-> FALSE, error |-> NULL])
    /\ UNCHANGED <<state, authHeader, pathname, restoreStarted, dash, form>>

-----------------------------------------------------------------------------
(* Dashboard (AuthContext.js lines 257-487) *)

\* loadDoctors() up to the await.
loadDoctors(d) ==
    /\ BagCardinality(inflight) < MaxInFlight
    /\ dash' = [d EXCEPT !.loading = TRUE]
    /\ LET req ==
           Request("getDoctors", "hospitalAPI", NoBody,
                   NULL, "Dashboard", DefaultAuthorization("hospitalAPI"), store)
       IN /\ inflight' = Sent(inflight, req)
          /\ last' = Step("loadDoctors", req, NoError, NoRet)
    /\ UNCHANGED <<state, store, authHeader, pathname, navPending,
                   hrefAssigns, restoreStarted, form>>

\* The Dashboard mounts on a page other than the login and register pages;
\* its mount effect calls loadDoctors.
DashboardMount ==
    /\ ~dash.mounted
    /\ pathname = "/"
    /\ loadDoctors([DashUnmounted EXCEPT !.mounted = TRUE])

\* Variant: the refresh button is rendered whatever loading and error are.
DashboardRefresh_AlwaysOffered ==
    /\ dash.mounted
    /\ loadDoctors(dash)

\* The refresh button, rendered when !loading && !error.
DashboardRefresh ==
    /\ dash.mounted
    /\ ~dash.loading
    /\ dash.error = NULL
    /\ loadDoctors(dash)

DoctorLists == { << >>, <<EmailA>> }

loadDoctorsResolved(r, response) ==
    /\ r.op = "getDoctors"
    /\ dash' = [dash EXCEPT !.doctors = response, !.error = NULL,
                            !.loading = FALSE]
    /\ inflight' = Answered(inflight, r)
    /\ last' = Step("loadDoctorsResolved", r, NoError, NoRet)
    /\ UNCHANGED <<state, store, authHeader, pathname, navPending,
                   hrefAssigns, restoreStarted, form>>

loadDoctorsRejected(r, err) ==
    /\ r.op = "getDoctors"
    /\ LET rej == addResponseInterceptor(err, store, pathname) IN
       /\ store' = rej.store
       /\ Redirected(rej)
    /\ dash' = [dash EXCEPT !.error = "Erro ao carregar medicos",
                            !.loading = FALSE]
    /\ inflight' = Answered(inflight, r)
    /\ last' = Step("loadDoctorsRejected", r, err, NoRet)
    /\ UNCHANGED <<state, authHeader, pathname, restoreStarted, form>>

\* user?.role
RoleOf(user) == IF user = NullUser THEN UNDEFINED ELSE user.role

\* formatRole(role): roles[role] || role
formatRole(role) ==
    LET roles == [doctor |-> "Medico", nurse |-> "Enfermeiro",
                  admin |-> "Administrador", user |-> "Usuario"]
    IN OrElse(IF role \in DOMAIN roles THEN roles[role] ELSE UNDEFINED, role)

\* handleLogout(), the confirm dialog accepted: logout().
handleLogout ==
    /\ dash.mounted
    /\ logout

-----------------------------------------------------------------------------
(* The document: navigation and reload *)

\* A new document: every in-memory value starts over, pending requests are
\* dropped with the old document, localStorage persists.
FreshDocument(path, op) ==
    /\ pathname' = path
    /\ state' = initialState
    /\ authHeader' = NULL
    /\ navPending' = FALSE
    /\ hrefAssigns' = 0
    /\ restoreStarted' = FALSE
    /\ inflight' = EmptyBag
    /\ dash' = DashUnmounted
    /\ form' = FormInitial
    /\ last' = Step(op, NoRequest, NoError, NoRet)
    /\ UNCHANGED store

\* The navigation started by window.location.href = '/login' commits.
Navigate ==
    /\ navPending
    /\ FreshDocument("/login", "Navigate")

\* The user reloads the page or opens the application again.
Reload(path) ==
    /\ FreshDocument(path, "Reload")

-----------------------------------------------------------------------------
(* The session specification: every operation, in any interleaving *)

LoginInputs == { [email |-> EmailB, password |-> PasswordB] }

RegisterInputs ==
    { [nome |-> <<"B">>, email |-> EmailB, password |-> PasswordB,
       confirm_password |-> PasswordB, role |-> "admin", crm |-> EmptyText,
       especialidade |-> EmptyText] }

Init ==
    /\ state = initialState
    /\ store \in {NULL, TokenOf(EmailA)}   \* left by an earlier session
    /\ authHeader = NULL
    /\ pathname \in Paths
    /\ navPending = FALSE
    /\ hrefAssigns = 0
    /\ restoreStarted = FALSE
    /\ inflight = EmptyBag
    /\ dash = DashUnmounted
    /\ form = FormInitial
    /\ last = Step("Init", NoRequest, NoError, NoRet)

\* The provider's mount effect runs before any user-driven operation; the
\* pages' own effects (clearError) run before it.
Next ==
    \/ loadStoredAuth
    \/ \E r \in Pending : loadStoredAuthResolved(r)
    \/ \E r \in Pending, err \in Errors : loadStoredAuthRejected(r, err)
    \/ restoreStarted /\ \E c \in LoginInputs : login(c.email, c.password)
    \/ \E r \in Pending : loginResolved(r)
    \/ \E r \in Pending, err \in Errors : loginRejected(r, err)
    \/ restoreStarted /\ \E u \in RegisterInputs :
                            register(u, "app") /\ UNCHANGED form
    \/ \E r \in Pending : registerResolved(r)
    \/ \E r \in Pending, err \in Errors : registerRejected(r, err)
    \/ restoreStarted /\ logout
    \/ clearError
    \/ restoreStarted /\ getCurrentUser
    \/ \E r \in Pending : getCurrentUserResolved(r)
    \/ \E r \in Pending, err \in Errors : getCurrentUserRejected(r, err)
    \/ Navigate
    \/ \E p \in Paths : Reload(p)

Spec == Init /\ [][Next]_vars

-----------------------------------------------------------------------------
(* One document, with the scheduling the code relies on *)

RestoreInFlight == \E r \in Pending : r.op = "restore"

\* The awaited /auth/me call settles: with the user, or with an error, which
\* the instance's timeout turns every unanswered request into.
RestoreAnswered ==
    \E r \in Pending :
        \/ loadStoredAuthResolved(r)
        \/ \E err \in Errors : loadStoredAuthRejected(r, err)

\* The operations within one document: the user does not reload; the only
\* navigation is the one the response interceptor starts.
DocumentNext ==
    \/ loadStoredAuth
    \/ RestoreAnswered
    \/ restoreStarted /\ \E c \in LoginInputs : login(c.email, c.password)
    \/ \E r \in Pending : loginResolved(r)
    \/ \E r \in Pending, err \in Errors : loginRejected(r, err)
    \/ restoreStarted /\ \E u \in RegisterInputs :
                            register(u, "app") /\ UNCHANGED form
    \/ \E r \in Pending : registerResolved(r)
    \/ \E r \in Pending, err \in Errors : registerRejected(r, err)
    \/ restoreStarted /\ logout
    \/ clearError
    \/ restoreStarted /\ getCurrentUser
    \/ \E r \in Pending : getCurrentUserResolved(r)
    \/ \E r \in Pending, err \in Errors : getCurrentUserRejected(r, err)
    \/ Navigate

\* React runs the provider's mount effect after the first render, and axios
\* settles every request (timeout: 10000).
FairSpec ==
    /\ Init
    /\ [][DocumentNext]_vars
    /\ WF_vars(loadStoredAuth)
    /\ WF_vars(RestoreAnswered)

-----------------------------------------------------------------------------
(* The Dashboard of an authenticated session *)

\* The role values a user object can carry: the four roles, values outside
\* them, and none.
RoleValues ==
    {"doctor", "nurse", "admin", "user", "superadmin", "Administrador",
     "", UNDEFINED}

\* The Dashboard of a session that a restore has authenticated, the user
\* being what the verifier returned for the token.
DashInit ==
    /\ \E role \in RoleValues :
          state = authReducer(initialState, "LOGIN_SUCCESS",
                      [user |-> [email |-> EmailA, role |-> role],
                       token |-> TokenOf(EmailA)])
    /\ store = TokenOf(EmailA)
    /\ authHeader = TokenOf(EmailA)
    /\ pathname = "/"
    /\ navPending = FALSE
    /\ hrefAssigns = 0
    /\ restoreStarted = TRUE
    /\ inflight = EmptyBag
    /\ dash = DashUnmounted
    /\ form = FormInitial
    /\ last = Step("Init", NoRequest, NoError, NoRet)

DashNext ==
    \/ DashboardMount
    \/ DashboardRefresh
    \/ \E r \in Pending, response \in DoctorLists :
          loadDoctorsResolved(r, response)
    \/ \E r \in Pending, err \in Errors : loadDoctorsRejected(r, err)
    \/ handleLogout
    \/ Navigate

DashSpec == DashInit /\ [][DashNext]_vars

-----------------------------------------------------------------------------
(* RegisterPage.js: the registration form *)

IsSpace(c) == c = " "

RECURSIVE TrimStart(_)
TrimStart(t) ==
    IF t # EmptyText /\ IsSpace(Head(t)) THEN TrimStart(Tail(t)) ELSE t

RECURSIVE TrimEnd(_)
TrimEnd(t) ==
    IF t # EmptyText /\ IsSpace(t[Len(t)])
    THEN TrimEnd(SubSeq(t, 1, Len(t) - 1)) ELSE t

\* String.prototype.trim()
Trim(t) == TrimEnd(TrimStart(t))

\* /\S+@\S+\.\S+/.test(t)
EmailPattern(t) ==
    \E i \in 2..Len(t), j \in 4..(Len(t) - 1) :
        /\ ~IsSpace(t[i - 1])
        /\ t[i] = "@"
        /\ j >= i + 2
        /\ \A k \in (i + 1)..(j - 1) : ~IsSpace(t[k])
        /\ t[j] = "."
        /\ ~IsSpace(t[j + 1])

MinPasswordLength == 6

\* Variant: the doctor fields are tested without trim().
validateForm_NoTrim(fd) ==
    [f \in Fields |->
        CASE f = "nome" ->
                IF Trim(fd.nome) = EmptyText THEN "Nome e obrigatorio"
                ELSE UNDEFINED
          [] f = "email" ->
                IF Trim(fd.email) = EmptyText THEN "Email e obrigatorio"
                ELSE IF ~EmailPattern(fd.email) THEN "Email invalido"
                ELSE UNDEFINED
          [] f = "password" ->
                IF fd.password = EmptyText THEN "Senha e obrigatoria"
                ELSE IF Len(fd.password) < MinPasswordLength
                     THEN "Senha deve ter pelo menos 6 caracteres"
                ELSE UNDEFINED
          [] f = "confirm_password" ->
                IF fd.confirm_password = EmptyText
                THEN "Confirmacao de senha e obrigatoria"
                ELSE IF fd.password # fd.confirm_password
                     THEN "Senhas nao coincidem"
                ELSE UNDEFINED
          [] f = "crm" ->
                IF fd.role = "doctor" /\ fd.crm = EmptyText
                THEN "CRM e obrigatorio para medicos"
                ELSE UNDEFINED
          [] f = "especialidade" ->
                IF fd.role = "doctor" /\ fd.especialidade = EmptyText
                THEN "Especialidade e obrigatoria para medicos"
                ELSE UNDEFINED]

\* Variant: the doctor fields are required whatever the role.
validateForm_AnyRole(fd) ==
    [f \in Fields |->
        CASE f = "crm" ->
                IF Trim(fd.crm) = EmptyText
                THEN "CRM e obrigatorio para medicos"
                ELSE UNDEFINED
          [] f = "especialidade" ->
                IF Trim(fd.especialidade) = EmptyText
                THEN "Especialidade e obrigatoria para medicos"
                ELSE UNDEFINED
          [] OTHER -> validateForm_NoTrim(fd)[f]]

\* validateForm(): the errors object, a message for each failing field and
\* UNDEFINED for a field without a key.
validateForm(fd) ==
    [f \in Fields |->
        CASE f = "nome" ->
                IF Trim(fd.nome) = EmptyText THEN "Nome e obrigatorio"
                ELSE UNDEFINED
          [] f = "email" ->
                IF Trim(fd.email) = EmptyText THEN "Email e obrigatorio"
                ELSE IF ~EmailPattern(fd.email) THEN "Email invalido"
                ELSE UNDEFINED
          [] f = "password" ->
                IF fd.password = EmptyText THEN "Senha e obrigatoria"
                ELSE IF Len(fd.password) < MinPasswordLength
                     THEN "Senha deve ter pelo menos 6 caracteres"
                ELSE UNDEFINED
          [] f = "confirm_password" ->
                IF fd.confirm_password = EmptyText
                THEN "Confirmacao de senha e obrigatoria"
                ELSE IF fd.password # fd.confirm_password
                     THEN "Senhas nao coincidem"
                ELSE UNDEFINED
          [] f = "crm" ->
                IF fd.role = "doctor" /\ Trim(fd.crm) = EmptyText
                THEN "CRM e obrigatorio para medicos"
                ELSE UNDEFINED
          [] f = "especialidade" ->
                IF fd.role = "doctor" /\ Trim(fd.especialidade) = EmptyText
                THEN "Especialidade e obrigatoria para medicos"
                ELSE UNDEFINED]

\* Object.keys(errors).length === 0
NoErrors(errors) == \A f \in Fields : errors[f] = UNDEFINED

\* The expression that enables the submit button.
isFormValid(fd) ==
    /\ fd.nome # EmptyText /\ fd.email # EmptyText
    /\ fd.password # EmptyText /\ fd.confirm_password # EmptyText
    /\ (fd.role # "doctor"
          \/ (fd.crm # EmptyText /\ fd.especialidade # EmptyText))

\* handleChange(e) for the input `name`, followed by the effect that the new
\* formData triggers: clearError().
handleChange(name, value) ==
    /\ pathname = "/register"
    /\ ~form.isSubmitting                        \* disabled={isSubmitting}
    /\ name \in {"crm", "especialidade"} => form.formData.role = "doctor"
    /\ form' = [form EXCEPT
                   !.formData = [form.formData EXCEPT ![name] = value],
                   !.validationErrors =
                       IF name \in Fields /\ Truthy(form.validationErrors[name])
                       THEN [form.validationErrors EXCEPT ![name] = NULL]
                       ELSE form.validationErrors]
    /\ state' = authReducer(state, "CLEAR_ERROR", NULL)
    /\ last' = Step("handleChange", NoRequest, NoError, NoRet)
    /\ UNCHANGED <<store, authHeader, pathname, navPending, hrefAssigns,
                   restoreStarted, inflight, dash>>

\* handleSubmit(e)
handleSubmit ==
    /\ pathname = "/register"
    /\ IF form.isSubmitting
       THEN /\ last' = Step("handleSubmit", NoRequest, NoError, NoRet)
            /\ UNCHANGED <<state, store, authHeader, pathname, navPending,
                           hrefAssigns, restoreStarted, inflight, dash, form>>
       ELSE LET errors == validateForm(form.formData) IN
            IF ~NoErrors(errors)
            THEN /\ form' = [form EXCEPT !.validationErrors = errors]
                 /\ last' = Step("handleSubmit", NoRequest, NoError, NoRet)
                 /\ UNCHANGED <<state, store, authHeader, pathname,
                                navPending, hrefAssigns, restoreStarted,
                                inflight, dash>>
            ELSE /\ form' = [form EXCEPT !.validationErrors = errors,
                                         !.isSubmitting = TRUE]
                 /\ register(form.formData, "RegisterPage")

NameInputs == { EmptyText, <<"x">> }
LicenceInputs == { EmptyText, <<" ">>, <<"1">> }
EmailInputs == { EmptyText, <<"a", "b">>, EmailB }
PasswordInputs == { EmptyText, <<"a", "b", "c">>, PasswordB }
Roles == {"doctor", "nurse", "admin", "user"}

InputsOf(name) ==
    CASE name = "nome" -> NameInputs
      [] name \in {"crm", "especialidade"} -> LicenceInputs
      [] name = "email" -> EmailInputs
      [] name \in {"password", "confirm_password"} -> PasswordInputs
      [] name = "role" -> Roles

\* What the verifier answers to the form's requests.
FormErrors ==
    { TransportError,
      [response |-> TRUE, status |-> 500, detail |-> "Email already registered"] }

\* Every form the user can have typed; the page is mounted with it, nothing
\* submitted yet.
FormInputs ==
    [nome : NameInputs, email : EmailInputs, password : PasswordInputs,
     confirm_password : PasswordInputs, role : Roles, crm : LicenceInputs,
     especialidade : LicenceInputs]

FormInit ==
    /\ state = initialState
    /\ store = NULL
    /\ authHeader = NULL
    /\ pathname = "/register"
    /\ navPending = FALSE
    /\ hrefAssigns = 0
    /\ restoreStarted = FALSE
    /\ inflight = EmptyBag
    /\ dash = DashUnmounted
    /\ \E fd \in FormInputs : form = [FormInitial EXCEPT !.formData = fd]
    /\ last = Step("Init", NoRequest, NoError, NoRet)

FormNext ==
    \/ loadStoredAuth
    \/ handleSubmit
    \/ \E r \in Pending : registerResolved(r)
    \/ \E r \in Pending, err \in FormErrors : registerRejected(r, err)
    \/ \E r \in Pending : loginResolved(r)
    \/ \E r \in Pending, err \in FormErrors : loginRejected(r, err)

FormSpec == FormInit /\ [][FormNext]_vars

-----------------------------------------------------------------------------
(* RegisterPage.js: the form from its mount, edited field by field *)

\* What the user types or selects in the input `name`.
EditsOf(name) ==
    CASE name = "nome" -> { <<"x">> }
      [] name \in {"crm", "especialidade"} -> { <<"1">> }
      [] name = "email" -> { EmailB }
      [] name \in {"password", "confirm_password"} -> { PasswordB }
      [] name = "role" -> Roles

EditInit ==
    /\ state = initialState
    /\ store = NULL
    /\ authHeader = NULL
    /\ pathname = "/register"
    /\ navPending = FALSE
    /\ hrefAssigns = 0
    /\ restoreStarted = FALSE
    /\ inflight = EmptyBag
    /\ dash = DashUnmounted
    /\ form = FormInitial
    /\ last = Step("Init", NoRequest, NoError, NoRet)

EditNext ==
    \/ loadStoredAuth
    \/ \E name \in Fields \cup {"role"} :
          \E value \in EditsOf(name) : handleChange(name, value)
    \/ handleSubmit
    \/ \E r \in Pending : registerResolved(r)
    \/ \E r \in Pending, err \in FormErrors : registerRejected(r, err)
    \/ \E r \in Pending : loginResolved(r)
    \/ \E r \in Pending, err \in FormErrors : loginRejected(r, err)

EditSpec == EditInit /\ [][EditNext]_vars

-----------------------------------------------------------------------------
(* LoginPage.js and RegisterPage.js: the pages under the provider *)

\* The page has rendered with a formData or a clearError that differs from
\* the previous render's.  formData is replaced by handleChange; clearError
\* is created by every render of AuthProvider, and AuthProvider renders after
\* every dispatch, each case of the reducer returning a new object.  A mount
\* runs every effect.
Rerenders(l) ==
    \/ l.op \in {"Init", "Reload", "Navigate"}
    \/ l.op \in {"handleChange", "LoginPage.handleChange"}
    \/ l.op = "loadStoredAuth" /\ l.req = NoRequest
    \/ l.op \in {"loadStoredAuthResolved", "loadStoredAuthRejected", "login",
                 "loginResolved", "loginRejected", "register",
                 "registerResolved", "registerRejected", "logout",
                 "clearError", "clearErrorEffect", "getCurrentUserResolved"}

PagePaths == {"/login", "/register"}

\* useEffect(() => { clearError(); }, [formData, clearError]) of the mounted
\* page; effectRuns counts its runs modulo EffectCycle.
clearErrorEffect ==
    /\ pathname \in PagePaths
    /\ Rerenders(last)
    /\ state' = authReducer(state, "CLEAR_ERROR", NULL)
    /\ form' = [form EXCEPT !.effectRuns = (@ + 1) % EffectCycle]
    /\ last' = Step("clearErrorEffect", NoRequest, NoError, NoRet)
    /\ UNCHANGED <<store, authHeader, pathname, navPending, hrefAssigns,
                   restoreStarted, inflight, dash>>

LoginFields == {"email", "password"}

\* LoginPage: handleChange(e) for the input `name`.
LoginPage_handleChange(name, value) ==
    /\ pathname = "/login"
    /\ name \in LoginFields
    /\ ~form.isSubmitting                        \* disabled={isSubmitting}
    /\ form' = [form EXCEPT !.formData = [form.formData EXCEPT ![name] = value]]
    /\ last' = Step("LoginPage.handleChange", NoRequest, NoError, NoRet)
    /\ UNCHANGED <<state, store, authHeader, pathname, navPending,
                   hrefAssigns, restoreStarted, inflight, dash>>

\* LoginPage: formData.email && formData.password
LoginPage_isFormValid(fd) == fd.email # EmptyText /\ fd.password # EmptyText

\* Variant: handleSubmit without `if (isSubmitting) return`.
LoginPage_handleSubmit_NoGuard ==
    /\ pathname = "/login"
    /\ LoginPage_isFormValid(form.formData)
    /\ BagCardinality(inflight) < MaxInFlight
    /\ form' = [form EXCEPT !.isSubmitting = TRUE]
    /\ state' = authReducer(state, "LOGIN_START", NULL)
    /\ LET req ==
           Request("login", "authAPI",
                   LoginBody(form.formData.email, form.formData.password),
                   NULL, "LoginPage", DefaultAuthorization("authAPI"), store)
       IN /\ inflight' = Sent(inflight, req)
          /\ last' = Step(IF form.isSubmitting THEN "handleSubmit" ELSE "login",
                          req, NoError, NoRet)
    /\ UNCHANGED <<store, authHeader, pathname, navPending, hrefAssigns,
                   restoreStarted, dash>>

\* LoginPage: handleSubmit(e) up to the await inside login; both inputs carry
\* `required`, so the form is submitted only when both are filled.
LoginPage_handleSubmit ==
    /\ pathname = "/login"
    /\ LoginPage_isFormValid(form.formData)
    /\ IF form.isSubmitting
       THEN /\ last' = Step("handleSubmit", NoRequest, NoError, NoRet)
            /\ UNCHANGED <<state, store, authHeader, pathname, navPending,
                           hrefAssigns, restoreStarted, inflight, dash, form>>
       ELSE /\ BagCardinality(inflight) < MaxInFlight
            /\ form' = [form EXCEPT !.isSubmitting = TRUE]
            /\ state' = authReducer(state, "LOGIN_START", NULL)
            /\ LET req ==
                   Request("login", "authAPI",
                           LoginBody(form.formData.email,
                                     form.formData.password),
                           NULL, "LoginPage",
                           DefaultAuthorization("authAPI"), store)
               IN /\ inflight' = Sent(inflight, req)
                  /\ last' = Step("login", req, NoError, NoRet)
            /\ UNCHANGED <<store, authHeader, pathname, navPending,
                           hrefAssigns, restoreStarted, dash>>

\* What the verifier answers to the pages' requests.
PageErrors ==
    FormErrors \cup
    { [response |-> TRUE, status |-> Unauthorized,
       detail |-> "Invalid credentials"] }

PageInit ==
    /\ state = initialState
    /\ store = NULL
    /\ authHeader = NULL
    /\ pathname \in PagePaths
    /\ navPending = FALSE
    /\ hrefAssigns = 0
    /\ restoreStarted = FALSE
    /\ inflight = EmptyBag
    /\ dash = DashUnmounted
    /\ form = FormInitial
    /\ last = Step("Init", NoRequest, NoError, NoRet)

PageNext ==
    \/ loadStoredAuth
    \/ \E r \in Pending : loadStoredAuthResolved(r)
    \/ \E r \in Pending, err \in PageErrors : loadStoredAuthRejected(r, err)
    \/ clearErrorEffect
    \/ \E name \in LoginFields :
          \E value \in EditsOf(name) : LoginPage_handleChange(name, value)
    \/ LoginPage_handleSubmit
    \/ \E name \in Fields \cup {"role"} :
          \E value \in EditsOf(name) : handleChange(name, value)
    \/ handleSubmit
    \/ \E r \in Pending : registerResolved(r)
    \/ \E r \in Pending, err \in PageErrors : registerRejected(r, err)
    \/ \E r \in Pending : loginResolved(r)
    \/ \E r \in Pending, err \in PageErrors : loginRejected(r, err)
    \/ Navigate
    \/ Reload(pathname)

PageSpec == PageInit /\ [][PageNext]_vars

\* React runs an effect whose dependencies changed.
FairPageSpec == PageSpec /\ WF_vars(clearErrorEffect)

-----------------------------------------------------------------------------
(* Vocabulary of the properties *)

Unauthenticated(s) ==
    ~s.isAuthenticated /\ s.user = NullUser /\ s.token = NULL

RejectedOps == {"loadStoredAuthRejected", "loginRejected", "registerRejected",
                "getCurrentUserRejected", "loadDoctorsRejected"}
DispatchOps == {"loadStoredAuth", "login", "register", "getCurrentUser",
                "loadDoctors"}

\* The step taken last was the reject step: a request came back
\* authentication-rejected and the response interceptor handled it.
RejectStep(l) == l.op \in RejectedOps /\ IsRejected(l.err)

\* The login response the verifier gives for the token t.
ProducedWith(t) ==
    CHOOSE d \in { LoginResponse(a.email) : a \in Accounts } :
        d.access_token = t

-----------------------------------------------------------------------------
(* Properties *)

\* C1: in every reachable state, token is set iff user is set iff the
\* session is authenticated.
C1_TokenIffUserIffAuthenticated ==
    /\ (state.token # NULL) <=> (state.user # NullUser)
    /\ (state.user # NullUser) <=> state.isAuthenticated

\* C2: a login resolution that arrives right after a logout issued while
\* that login was in flight is discarded: the session stays Unauthenticated
\* and neither the store nor the Authorization header holds a token.
C2_LogoutWinsOverInFlightLogin ==
    [][ (last.op = "logout" /\ last'.op = "loginResolved")
        => (Unauthenticated(state') /\ store' = NULL /\ authHeader' = NULL)
      ]_vars

\* C3: when a call carrying a credential is answered authentication-rejected
\* while the session is Authenticated, the stored token is cleared and the
\* session becomes Unauthenticated.
C3_RejectionUnauthenticates ==
    [][ (state.isAuthenticated /\ RejectStep(last')
         /\ last'.req.bearer # NULL)
        => (store' = NULL /\ Unauthenticated(state')) ]_vars

\* C4: when two calls in flight at the same time are both answered
\* authentication-rejected away from the login page, window.location.href
\* is assigned once in total.
C4_RedirectFiresOnce ==
    [][ (RejectStep(last) /\ hrefAssigns = 1 /\ pathname # "/login"
         /\ RejectStep(last'))
        => hrefAssigns' = 1 ]_vars

\* C5: a request dispatched right after the reject step carries no bearer
\* credential.
C5_NoCredentialAfterReject ==
    [][ (RejectStep(last) /\ last'.op \in DispatchOps
         /\ last'.req # NoRequest)
        => last'.req.bearer = NULL ]_vars

\* C6: the store only ever holds a token that login produced, and a restore
\* whose who-am-I call is accepted ends Authenticated with the token it read
\* from the store and the user login produced with that token.
C6_RestoreRoundTrip ==
    /\ store # NULL => store \in Tokens
    /\ last.op = "loginResolved" =>
          /\ store = LoginResponse(last.req.body.email).access_token
          /\ state.user = ProducedWith(store).user
    /\ last.op = "loadStoredAuthResolved" =>
          /\ state.isAuthenticated
          /\ state.token = last.req.tok
          /\ state.user = ProducedWith(last.req.tok).user

C6_Witness ==
    /\ last.op = "loadStoredAuthResolved"
    /\ state.token = TokenOf(EmailB)
    /\ state.user = AccountOf(EmailB)

\* C7: from any state, logout twice leaves the session state, the store and
\* the Authorization header as logout once does.
C7_LogoutIdempotent ==
    logoutEffect(logoutEffect(Session)) = logoutEffect(Session)

C7_Witness ==
    /\ last.op = "logout"
    /\ Session = logoutEffect(Session)
    /\ inflight # EmptyBag

\* C8: when the verifier accepts a login, the session is Authenticated with
\* loading false and error unset, the store, the Authorization header and
\* state.token all hold the returned token, and login returns success.
C8_LoginSuccess ==
    last.op = "loginResolved" =>
        LET data == LoginResponse(last.req.body.email) IN
        /\ state.isAuthenticated /\ ~state.loading /\ state.error = NULL
        /\ state.user = data.user
        /\ state.token = data.access_token
        /\ store = data.access_token
        /\ authHeader = data.access_token
        /\ last.ret.success

C8_Witness ==
    /\ last.op = "loginResolved"
    /\ last.req.caller = "page"
    /\ store = TokenOf(EmailB)

\* C9: when login fails, the session is Unauthenticated with error set to
\* the server's message when it gave one and to the fallback otherwise, and
\* login returns failure with the same message.
C9_LoginFailure ==
    last.op = "loginRejected" =>
        LET expected == IF Truthy(DetailOf(last.err))
                        THEN DetailOf(last.err) ELSE LoginFallback
        IN
        /\ Unauthenticated(state)
        /\ ~state.loading
        /\ state.error = expected
        /\ last.req.caller = "page" =>
               last.ret = [success |-> FALSE, error |-> state.error]

C9_WitnessServerMessage ==
    /\ last.op = "loginRejected"
    /\ last.req.caller = "page"
    /\ state.error = "Invalid credentials"

\* C10: a submit of the registration form with role doctor and a blank crm
\* or especialidade issues no request, records an error for the blank field
\* and leaves the session as it was.
C10_DoctorFieldsCheckedBeforeNetwork ==
    [][ LET fd == form.formData
            submitStep ==
                \/ last'.op = "handleSubmit"
                \/ last'.op = "register" /\ last'.req.caller = "RegisterPage"
        IN
        (submitStep /\ ~form.isSubmitting /\ fd.role = "doctor"
         /\ (Trim(fd.crm) = EmptyText \/ Trim(fd.especialidade) = EmptyText))
        => /\ inflight' = inflight
           /\ state' = state
           /\ store' = store
           /\ ~form'.isSubmitting
           /\ Trim(fd.crm) = EmptyText =>
                  Truthy(form'.validationErrors["crm"])
           /\ Trim(fd.especialidade) = EmptyText =>
                  Truthy(form'.validationErrors["especialidade"])
      ]_vars

C10_Witness ==
    /\ last.op = "handleSubmit"
    /\ isFormValid(form.formData)
    /\ form.formData.role = "doctor"
    /\ form.formData.crm = <<" ">>
    /\ form.formData.especialidade = <<"1">>
    /\ Truthy(form.validationErrors["crm"])
    /\ ~Truthy(form.validationErrors["especialidade"])
    /\ inflight = EmptyBag

C12_RestoreTerminates ==
    <>(restoreStarted /\ ~RestoreInFlight /\ ~state.loading)

C12_Witness ==
    /\ last.op = "loadStoredAuthRejected"
    /\ IsRejected(last.err)
    /\ restoreStarted /\ ~RestoreInFlight /\ ~state.loading
    /\ BagCardinality(inflight) > 0

\* C13: when restore finds no token in the store it sends no request and
\* leaves the session Unauthenticated with loading false and error unset; the
\* store and the Authorization header stay empty.
C13_RestoreWithoutToken ==
    [][ (last'.op = "loadStoredAuth" /\ ~Truthy(store))
        => /\ inflight' = inflight
           /\ Unauthenticated(state')
           /\ ~state'.loading
           /\ state'.error = NULL
           /\ store' = store
           /\ authHeader' = NULL
      ]_vars

C13_Witness ==
    /\ last.op = "loadStoredAuth"
    /\ last.req = NoRequest
    /\ store = NULL
    /\ inflight = EmptyBag
    /\ Unauthenticated(state) /\ ~state.loading /\ state.error = NULL

\* C14: logout can be taken in every state, and it leaves the store and the
\* Authorization header empty and the session Unauthenticated with error
\* unset and loading false, in one step that sends no request.
C14_LogoutClearsSession ==
    /\ [](ENABLED logout)
    /\ [][ last'.op = "logout"
           => /\ store' = NULL
              /\ authHeader' = NULL
              /\ Unauthenticated(state')
              /\ state'.error = NULL
              /\ ~state'.loading
              /\ inflight' = inflight
         ]_vars

C14_Witness ==
    /\ last.op = "logout"
    /\ store = NULL /\ authHeader = NULL
    /\ Unauthenticated(state) /\ state.error = NULL /\ ~state.loading
    /\ \E r \in Pending :
          r.op = "getCurrentUser" /\ r.bearer = TokenOf(EmailB)

\* C15: clearError sets error to unset and changes nothing else: not
\* isAuthenticated, loading, token or user, not the stored token and not the
\* Authorization header.
C15_ClearErrorFrame ==
    [][ last'.op = "clearError"
        => /\ state'.error = NULL
           /\ state'.isAuthenticated = state.isAuthenticated
           /\ state'.loading = state.loading
           /\ state'.token = state.token
           /\ state'.user = state.user
           /\ store' = store
           /\ authHeader' = authHeader
      ]_vars

\* The stored token predates a failed login whose error has been cleared.
C15_Witness ==
    /\ last.op = "clearError"
    /\ restoreStarted
    /\ store = TokenOf(EmailA) /\ authHeader = TokenOf(EmailA)
    /\ ~state.isAuthenticated /\ ~state.loading
    /\ state.error = NULL

\* C16: when getCurrentUser's call is accepted, user becomes the principal
\* the verifier returned for the credential the request carried, and
\* isAuthenticated, loading, token, error and the stored token stay as they
\* were.
C16_RefreshUserFrame ==
    [][ last'.op = "getCurrentUserResolved"
        => /\ state'.user = MeResponse(last'.req.bearer)
           /\ state'.isAuthenticated = state.isAuthenticated
           /\ state'.loading = state.loading
           /\ state'.token = state.token
           /\ state'.error = state.error
           /\ store' = store
           /\ authHeader' = authHeader
      ]_vars

C16_Witness ==
    /\ last.op = "getCurrentUserResolved"
    /\ state.isAuthenticated /\ ~state.loading
    /\ state.token = TokenOf(EmailA)
    /\ state.user = AccountOf(EmailA)
    /\ store = TokenOf(EmailA)

\* C17: when getCurrentUser's call fails, whatever the failure, user,
\* isAuthenticated and token stay as they were, the stored token and the
\* Authorization header are still there, and the caller is told of the
\* failure.
C17_RefreshFailureKeepsSession ==
    [][ last'.op = "getCurrentUserRejected"
        => /\ state'.user = state.user
           /\ state'.isAuthenticated = state.isAuthenticated
           /\ state'.token = state.token
           /\ store' = store
           /\ authHeader' = authHeader
           /\ ~last'.ret.success
      ]_vars

\* The messages a failed login and a failed registration put in error.
LoginFailureMessages ==
    { OrElse(DetailOf(e), LoginFallback) : e \in Errors }
RegisterFailureMessages ==
    { OrElse(DetailOf(e), RegisterFallback) : e \in Errors }

\* C18: when the registration call succeeded and the login that follows it
\* fails, register returns the "registered, automatic login failed" result,
\* and error holds neither a login failure message nor a registration
\* failure message.
C18_AutoLoginFailureDistinguishable ==
    (last.op = "loginRejected" /\ last.req.caller # "page")
    => /\ last.ret = [success |-> FALSE, error |-> AutoLoginFailed]
       /\ last.ret.error \notin RegisterFailureMessages
       /\ state.error \notin LoginFailureMessages
       /\ state.error \notin RegisterFailureMessages

\* A step sends the request q.
Issues(q, before, after) == CopiesIn(q, after) > CopiesIn(q, before)

\* C19: a login request on behalf of register is sent only by the step that
\* takes the accepted answer of the registration request, and it carries the
\* email and password of that request; when the registration request fails,
\* no login request is sent, no token is written to the store, and the
\* session is Unauthenticated with error set.
C19_AutoLoginOnlyAfterRegistration ==
    [][ /\ \A q \in BagToSet(inflight') :
              (q.op = "login" /\ q.caller # "page"
               /\ Issues(q, inflight, inflight'))
              => /\ last'.op = "registerResolved"
                 /\ last'.req.op = "register"
                 /\ BagIn(last'.req, inflight)
                 /\ q.body = LoginBody(last'.req.body.email,
                                       last'.req.body.password)
        /\ last'.op = "registerResolved"
              => \E q \in BagToSet(inflight') :
                    /\ q.op = "login" /\ q.caller = last'.req.caller
                    /\ Issues(q, inflight, inflight')
        /\ last'.op = "registerRejected"
              => /\ \A q \in BagToSet(inflight') :
                        ~Issues(q, inflight, inflight')
                 /\ store' \in {store, NULL}
                 /\ Unauthenticated(state')
                 /\ Truthy(state'.error)
                 /\ ~state'.loading
      ]_vars

C19_Witness ==
    /\ last.op = "registerResolved"
    /\ last.req.body.email = EmailB
    /\ \E q \in Pending :
          /\ q.op = "login" /\ q.caller = "app"
          /\ q.body = LoginBody(EmailB, PasswordB)
    /\ store = NULL

\* C20: handling an authentication-rejected response leaves error as it was
\* before the response arrived, whichever operation sent the request.
C20_RejectionLeavesError ==
    [][ RejectStep(last') => state'.error = state.error ]_vars

\* C21: a transport failure of login or register puts the generic fallback
\* in error, and a rejection by the server, with or without a reason, puts
\* a different message there.
C21_TransportFailureDistinct ==
    /\ (last.op = "loginRejected" /\ ~last.err.response)
          => state.error = LoginFallback
    /\ (last.op = "registerRejected" /\ ~last.err.response)
          => state.error = RegisterFallback
    /\ (last.op = "loginRejected" /\ last.err.response)
          => state.error # LoginFallback
    /\ (last.op = "registerRejected" /\ last.err.response)
          => state.error # RegisterFallback

C23_LoadingExcludesAuthenticated ==
    ~(state.loading /\ state.isAuthenticated)

\* C24: whenever the restore has run and no request is in flight, the store
\* holds a token iff the session is Authenticated.
C24_StoreIffAuthenticated ==
    (restoreStarted /\ inflight = EmptyBag /\ ~navPending)
    => (Truthy(store) <=> state.isAuthenticated)

\* C26: for every form, validation records an error for crm (especialidade)
\* iff the role is doctor and the field is blank; for the other roles
\* neither the errors nor the enabling of the submit button depend on the
\* two fields; a submit that was refused shows exactly these errors.
C26_DoctorFieldsRequiredIffDoctor ==
    LET fd == form.formData
        errors == validateForm(fd)
    IN
    /\ Truthy(errors["crm"])
          <=> (fd.role = "doctor" /\ Trim(fd.crm) = EmptyText)
    /\ Truthy(errors["especialidade"])
          <=> (fd.role = "doctor" /\ Trim(fd.especialidade) = EmptyText)
    /\ fd.role # "doctor" =>
          \A c \in LicenceInputs, e \in LicenceInputs :
              LET other == [fd EXCEPT !.crm = c, !.especialidade = e] IN
              /\ validateForm(other) = errors
              /\ isFormValid(other) = isFormValid(fd)
    /\ (fd.role = "doctor" /\ (fd.crm = EmptyText
                                 \/ fd.especialidade = EmptyText))
          => ~isFormValid(fd)
    /\ last.op = "handleSubmit" => form.validationErrors = errors

C26_Witness ==
    /\ last.op = "register"
    /\ last.req.caller = "RegisterPage"
    /\ last.req.body.role = "nurse"
    /\ last.req.body.crm = EmptyText
    /\ last.req.body.especialidade = <<" ">>
    /\ form.isSubmitting

\* C27: a registration request sent by the form carries crm and
\* especialidade values only when its role is doctor; for every other role
\* the two fields are empty in the payload.
C27_DoctorFieldsOnlyForDoctor ==
    \A r \in Pending :
        (r.op = "register" /\ r.body.role # "doctor")
        => (r.body.crm = EmptyText /\ r.body.especialidade = EmptyText)

\* The labels of the roles above user.
PrivilegedLabels == { formatRole(r) : r \in Roles \ {"user"} }

\* C28: the role mapping gives every role value a result, and a value
\* outside the four roles is not given the label of a role above user.
C28_UnrecognizedRoleLeastPrivileged ==
    LET role == RoleOf(state.user) IN
    /\ formatRole(role) \in RoleValues \cup { formatRole(r) : r \in Roles }
    /\ role \notin Roles => formatRole(role) \notin PrivilegedLabels

\* C29: every request carries the stored token as its bearer credential
\* when the store holds one at dispatch, and no bearer credential when the
\* store holds none.
C29_BearerIsStoredToken ==
    [][ (last'.op \in DispatchOps /\ last'.req # NoRequest)
        => last'.req.bearer = (IF Truthy(store) THEN store ELSE NULL) ]_vars

\* The operations whose catch block touches neither localStorage, the axios
\* defaults nor window.location.
PassThroughOps == {"loginRejected", "registerRejected",
                   "getCurrentUserRejected", "loadDoctorsRejected"}

\* C30: an error that is not authentication-rejected reaches the caller as
\* it is and leaves the stored token, the Authorization header and the
\* location as they were; an authentication-rejected one still reaches the
\* caller's catch block after the token has been removed.
C30_OtherErrorsPassThrough ==
    [][ LET l == last' IN
        /\ (l.op \in PassThroughOps /\ ~IsRejected(l.err))
              => /\ store' = store
                 /\ authHeader' = authHeader
                 /\ pathname' = pathname
                 /\ navPending' = navPending
                 /\ hrefAssigns' = hrefAssigns
        /\ (l.op = "loginRejected" /\ l.req.caller = "page")
              => l.ret = [success |-> FALSE,
                          error |-> OrElse(DetailOf(l.err), LoginFallback)]
        /\ (l.op \in PassThroughOps /\ IsRejected(l.err))
              => (store' = NULL /\ ~l.ret.success)
        /\ l.op = "loadStoredAuthRejected" => ~state'.loading
      ]_vars

C30_Witness ==
    /\ last.op = "loginRejected"
    /\ last.err.response /\ last.err.status = 500
    /\ last.ret.error = "Email already registered"
    /\ store = TokenOf(EmailA) /\ authHeader = TokenOf(EmailA)
    /\ pathname = "/" /\ ~navPending

\* C31: after the reject step the stored token is gone; on the login page
\* no navigation has been started, on every other page one has.
C31_RedirectUnlessOnLogin ==
    RejectStep(last) =>
        /\ store = NULL
        /\ pathname = "/login" => (~navPending /\ hrefAssigns = 0)
        /\ pathname # "/login" => (navPending /\ hrefAssigns >= 1)

C31_Witness ==
    /\ RejectStep(last)
    /\ last.op = "getCurrentUserRejected"
    /\ last.req.bearer = TokenOf(EmailA)
    /\ pathname = "/login"
    /\ store = NULL /\ ~navPending /\ hrefAssigns = 0
    /\ state.isAuthenticated

C33_ErrorStaysUntilChange ==
    [][ (state.error # NULL /\ state'.error = NULL)
            => last'.op \in {"handleChange", "LoginPage.handleChange",
                             "login", "register", "registerResolved",
                             "Reload", "Navigate"}
      ]_vars

\* The login and register calls awaiting their response.
AttemptsInFlight ==
    { r \in Pending : r.op \in {"login", "register"} }

\* C34: a page serializes its attempts: at most one login or register call
\* is in flight at any time, the page is submitting for as long as it is, and
\* a submit during that time leaves the requests in flight as they were.
C34_OneAttemptInFlight ==
    /\ \A r \in AttemptsInFlight :
          /\ CopiesIn(r, inflight) = 1
          /\ \A q \in AttemptsInFlight : q = r
          /\ form.isSubmitting
    /\ last.op = "handleSubmit" /\ form.isSubmitting
          => Cardinality(AttemptsInFlight) = 1

C34_Witness ==
    /\ last.op = "handleSubmit"
    /\ form.isSubmitting
    /\ pathname = "/login"
    /\ \E r \in AttemptsInFlight : r.op = "login" /\ r.caller = "LoginPage"

\* C39: the clear-error effect reaches quiescence: unless other steps keep
\* happening, its runs come to an end.
C39_EffectQuiesces ==
    \/ []<><<last'.op # "clearErrorEffect">>_vars
    \/ \E n \in 0..(EffectCycle - 1) : <>[](form.effectRuns = n)

\* The session, the store and the attached credential agree on the token t
\* and on the user it was issued to.
AgreeOn(s, st, hdr, t) ==
    /\ s.isAuthenticated /\ s.token = t /\ s.user = UserOfToken(t)
    /\ st = t
    /\ hdr = t

\* C35: when the who-am-I call that restore started with the stored token T1
\* is answered after a later login has succeeded with another token T2, the
\* answer, success or failure, leaves the session, the store and the attached
\* credential agreeing on T2.
C35_LateRestoreKeepsLogin ==
    [][ \A t1, t2 \in Tokens :
          ( /\ t1 # t2
            /\ last'.op \in {"loadStoredAuthResolved", "loadStoredAuthRejected"}
            /\ last'.req.tok = t1
            /\ AgreeOn(state, store, authHeader, t2) )
          => AgreeOn(state', store', authHeader', t2)
      ]_vars

\* C36: when logout is called while the who-am-I call of restore is in flight
\* and the call then succeeds, the session stays Unauthenticated.
C36_LateRestoreAfterLogout ==
    [][ ( /\ last.op = "logout"
          /\ last'.op = "loadStoredAuthResolved"
          /\ store = NULL /\ Unauthenticated(state) )
          => Unauthenticated(state')
      ]_vars

\* C37: in every reachable state, whatever the interleaving of the session
\* operations, isAuthenticated is true exactly when state.token is not null.
C37_AuthenticatedIffToken ==
    state.isAuthenticated <=> state.token # NULL

C37_Witness ==
    /\ last.op = "loadStoredAuthResolved"
    /\ state.isAuthenticated /\ state.token = TokenOf(EmailA)
    /\ store = TokenOf(EmailB)

\* C38: in every reachable state, whatever the interleaving of the session
\* operations, a session with an error is not authenticated and has no token.
C38_ErrorImpliesUnauthenticated ==
    state.error # NULL => (~state.isAuthenticated /\ state.token = NULL)

C38_Witness ==
    /\ last.op = "loginRejected"
    /\ state.error # NULL
    /\ ~state.isAuthenticated /\ state.token = NULL
    /\ RestoreInFlight

\* The getDoctors calls awaiting their response.
DoctorsInFlight ==
    { r \in Pending : r.op = "getDoctors" }

\* C40: on the Dashboard every loadDoctors call ends with loading false,
\* with error null after a fetch that succeeded and set after one that
\* failed; error changes only when a fetch completes (or the page goes), so
\* it is set iff the fetch completed last failed; and at most one doctors
\* fetch is in flight at any time.
C40_DoctorsFetch ==
    /\ [] /\ last.op \in {"loadDoctorsResolved", "loadDoctorsRejected"}
                => (~dash.loading /\ DoctorsInFlight = {})
          /\ last.op = "loadDoctorsResolved" => dash.error = NULL
          /\ last.op = "loadDoctorsRejected" => dash.error # NULL
          /\ \A r \in DoctorsInFlight :
                /\ CopiesIn(r, inflight) = 1
                /\ \A q \in DoctorsInFlight : q = r
                /\ dash.loading
    /\ [][ dash'.error # dash.error
              => last'.op \in {"loadDoctorsResolved", "loadDoctorsRejected",
                               "Navigate"}
         ]_vars

C40_Witness ==
    /\ last.op = "loadDoctorsRejected"
    /\ dash.mounted /\ ~dash.loading
    /\ dash.error # NULL
    /\ dash.doctors = <<EmailA>>
    /\ inflight = EmptyBag

====
